---------------------------- MODULE Spec2Model ----------------------------
(***************************************************************************)
(* Verse segmentation of the nineteenapp repository.                       *)
(*                                                                         *)
(* Two routines named parseVersesFromContent cut a text blob into numbered *)
(* verses: the one of the API route (marker between whitespace, called     *)
(* MID_STREAM here) and the one of the batch scraper (marker followed by   *)
(* whitespace or the end, called END_OF_UNIT here).  Both use the numeral  *)
(* decoder arabicIndicToNumber.                                            *)
(*                                                                         *)
(* A string is a sequence of code points: 32 is the space, 10 the line     *)
(* feed, 97.. are Latin letters, 48..57 the ASCII digits, 1632..1641 the   *)
(* Arabic-Indic digits and 1776..1785 the Extended Arabic-Indic digits.    *)
(***************************************************************************)
EXTENDS Integers, Sequences, FiniteSets, TLC

VARIABLES
    routine,          \* which parseVersesFromContent runs, or "decoder"
    content,          \* the argument of the routine
    parts,            \* const parts = content.split(...)
    i,                \* the loop index (1-based here)
    currentText,      \* let currentText
    expectedVerseNum, \* let expectedVerseNum
    verses,           \* const verses: Verse[]
    num,              \* const num, the last decoded candidate
    pc,               \* position in the routine
    round,            \* 1: the run on the input, 2: the run on the rebuilt text
    first,            \* the unit list of round 1, kept for round 2
    origin,           \* how the input was composed (never read by the routines)
    positions,        \* const positions of parseVerses
    lastVerseNum,     \* let lastVerseNum of parseVerses
    lastIndex,        \* verseNumberPattern.lastIndex (1-based here)
    name,             \* the surah name a caller is given
    response,         \* what the upstream source answered
    bismillah,        \* const/let bismillah of a caller
    result,           \* what a caller returned or threw
    results,          \* const results of the surah scraper's main
    errors,           \* const errors of the surah scraper's main
    surahIndex,       \* the loop index of the surah scraper's main (1-based)
    quranData,        \* const quranData of scrape-numerical's main
    cursor,           \* the surah and the unit that its two loops are at
    totalRequests,    \* let totalRequests
    successCount,     \* let successCount
    errorCount,       \* let errorCount
    slept,            \* milliseconds of setTimeout since the last request
    requested,        \* a request has been issued before
    surahInput,       \* const [surahName, setSurahName] of the page
    data,             \* const [data, setData]
    error,            \* const [error, setError]
    loading,          \* const [loading, setLoading]
    pending,          \* the calls of scrape that await their response
    started           \* how many calls of scrape went past their first line

\* the variables of the callers of parseVersesFromContent
callers == <<name, response, bismillah, result>>

\* the variables of the two batch mains
mains == <<results, errors, surahIndex, quranData, cursor, totalRequests,
           successCount, errorCount, slept, requested>>

\* the variables of the page
page == <<surahInput, data, error, loading, pending, started>>

\* the variables the two parseVersesFromContent do not have
aside == <<positions, lastVerseNum, lastIndex, callers, mains, page>>

vars == <<routine, content, parts, i, currentText, expectedVerseNum, verses,
          num, pc, round, first, origin, aside>>

-----------------------------------------------------------------------------
(* Bounds of the model. *)

\* longest content of the exhaustive input family
MaxLen == 4

\* most "text marker" segments of the composed input family
MaxSegs == 2

\* longest argument of the decoder run on its own
MaxDigits == 3

\* most fragments of a payload after its third one
MaxFrags == 2

\* most verses of a surah of quran.json
MaxVerses == 2

\* most calls of scrape that the page's user makes
MaxScrapes == 3

-----------------------------------------------------------------------------
(* Characters. *)

\* "٠", the first character of the class range ٠-٩
ArabicIndicZero == 1632

\* "۰", the first character of the class range ۰-۹
ExtendedZero == 1776

\* "0"
AsciiZero == 48

\* the members of \s that the inputs use: space and line feed
WhiteSpace == {32, 10}

IsSpace(c) == c \in WhiteSpace

\* the character class [٠-٩۰-۹] of both routines
IsNumeralChar(c) ==
    \/ c \in ArabicIndicZero .. (ArabicIndicZero + 9)
    \/ c \in ExtendedZero .. (ExtendedZero + 9)

IsAsciiDigit(c) == c \in AsciiZero .. (AsciiZero + 9)

-----------------------------------------------------------------------------
(* Strings. *)

RECURSIVE TrimStart(_)
TrimStart(s) ==
    IF s # <<>> /\ IsSpace(Head(s)) THEN TrimStart(Tail(s)) ELSE s

RECURSIVE TrimEnd(_)
TrimEnd(s) ==
    IF s # <<>> /\ IsSpace(s[Len(s)])
    THEN TrimEnd(SubSeq(s, 1, Len(s) - 1))
    ELSE s

\* a mutation of Trim: only the start is trimmed
TrimStartOnly(s) == TrimStart(s)

\* String.prototype.trim
Trim(s) == TrimEnd(TrimStart(s))

RECURSIVE Concat(_)
Concat(ss) == IF ss = <<>> THEN <<>> ELSE Head(ss) \o Concat(Tail(ss))

-----------------------------------------------------------------------------
(* The numeral decoder. *)

\* parseInt's result on a string with no digit to read
NaN == -1

\* a mutation of MapDigit: the table without its Extended Arabic-Indic rows
MapDigitArabicIndicOnly(c) ==
    IF c \in ArabicIndicZero .. (ArabicIndicZero + 9)
    THEN AsciiZero + (c - ArabicIndicZero)
    ELSE c

\* the table arabicIndicDigits with the fallback "?? c"
MapDigit(c) ==
    IF c \in ArabicIndicZero .. (ArabicIndicZero + 9)
    THEN AsciiZero + (c - ArabicIndicZero)
    ELSE IF c \in ExtendedZero .. (ExtendedZero + 9)
         THEN AsciiZero + (c - ExtendedZero)
         ELSE c

\* str.split("").map(...).join("")
MapDigits(str) == [k \in 1 .. Len(str) |-> MapDigit(str[k])]

RECURSIVE DigitPrefixValue(_, _)
DigitPrefixValue(s, acc) ==
    IF s # <<>> /\ IsAsciiDigit(Head(s))
    THEN DigitPrefixValue(Tail(s), acc * 10 + (Head(s) - AsciiZero))
    ELSE acc

\* parseInt(s) without a radix, for strings with no sign and no "0x" prefix:
\* leading white space is skipped, the longest prefix of ASCII digits is read
\* in base 10, and a string with no such prefix gives NaN.
parseInt(s) ==
    LET t == TrimStart(s)
    IN  IF t # <<>> /\ IsAsciiDigit(Head(t)) THEN DigitPrefixValue(t, 0) ELSE NaN

arabicIndicToNumber(str) == parseInt(MapDigits(str))

\* String(num) of numberToArabicIndic
RECURSIVE DecimalDigits(_)
DecimalDigits(n) ==
    IF n < 10 THEN <<n>> ELSE Append(DecimalDigits(n \div 10), n % 10)

\* the numeral of the page: Arabic-Indic digits, most significant first
numberToArabicIndic(n) ==
    LET ds == DecimalDigits(n)
    IN  [k \in 1 .. Len(ds) |-> ArabicIndicZero + ds[k]]

-----------------------------------------------------------------------------
(* The regular expressions and String.prototype.split. *)

\* the last index of the run of numeral characters that starts at p
RECURSIVE RunEnd(_, _)
RunEnd(s, p) ==
    IF p < Len(s) /\ IsNumeralChar(s[p + 1]) THEN RunEnd(s, p + 1) ELSE p

\* a mutation of NumeralThenEnd: the pattern without "|$", as in \s(...)\s
NumeralThenSpace(s, p) ==
    IF p > Len(s) \/ ~IsNumeralChar(s[p])
    THEN 0
    ELSE LET r == RunEnd(s, p)
         IN  IF r < Len(s) /\ IsSpace(s[r + 1]) THEN r + 1 ELSE 0

\* ([٠-٩۰-۹]+)(?:\s|$) tried at p: the greedy run must be followed by white
\* space (consumed) or by the end; a shorter run is followed by a numeral
\* character, so backtracking never matches.  0 when there is no match, else
\* the index of the last character the match consumes.
NumeralThenEnd(s, p) ==
    IF p > Len(s) \/ ~IsNumeralChar(s[p])
    THEN 0
    ELSE LET r == RunEnd(s, p)
         IN  IF r = Len(s) THEN r
             ELSE IF IsSpace(s[r + 1]) THEN r + 1
             ELSE 0

\* /([٠-٩۰-۹]+)(?:\s|$)/ at q: <<first captured index, last captured index,
\* last consumed index>>, or <<>> when it does not match at q
MatchEndOfUnit(s, q) ==
    IF NumeralThenEnd(s, q) = 0 THEN <<>>
    ELSE <<q, RunEnd(s, q), NumeralThenEnd(s, q)>>

\* /\s([٠-٩۰-۹]+)(?:\s|$)/ at q
MatchMidStream(s, q) ==
    IF IsSpace(s[q]) /\ NumeralThenEnd(s, q + 1) # 0
    THEN <<q + 1, RunEnd(s, q + 1), NumeralThenEnd(s, q + 1)>>
    ELSE <<>>

MatchAt(r, s, q) ==
    IF r = "MID_STREAM" THEN MatchMidStream(s, q) ELSE MatchEndOfUnit(s, q)

\* split with a pattern that has one capture group and never matches the
\* empty string: the text from p to the match, the capture, and on from the
\* end of the match; the rest of the string is the last part.
RECURSIVE SplitFrom(_, _, _, _)
SplitFrom(r, s, p, q) ==
    IF q > Len(s)
    THEN <<SubSeq(s, p, Len(s))>>
    ELSE LET m == MatchAt(r, s, q)
         IN  IF m = <<>>
             THEN SplitFrom(r, s, p, q + 1)
             ELSE <<SubSeq(s, p, q - 1), SubSeq(s, m[1], m[2])>>
                  \o SplitFrom(r, s, m[3] + 1, m[3] + 1)

\* content.split(/\s([٠-٩۰-۹]+)(?:\s|$)/)
SplitMidStream(s) == SplitFrom("MID_STREAM", s, 1, 1)

\* content.split(/([٠-٩۰-۹]+)(?:\s|$)/)
SplitEndOfUnit(s) == SplitFrom("END_OF_UNIT", s, 1, 1)

\* /^[٠-٩۰-۹]+$/.test(part)
isVerseNum(part) ==
    /\ part # <<>>
    /\ \A k \in 1 .. Len(part) : IsNumeralChar(part[k])

\* /\s([٠-٩۰-۹]+)\s/ at q: <<index of the match, last captured index, last
\* consumed index>>, or <<>> when it does not match at q
MatchSpaced(s, q) ==
    IF /\ IsSpace(s[q])
       /\ q < Len(s)
       /\ IsNumeralChar(s[q + 1])
       /\ RunEnd(s, q + 1) < Len(s)
       /\ IsSpace(s[RunEnd(s, q + 1) + 1])
    THEN <<q, RunEnd(s, q + 1), RunEnd(s, q + 1) + 1>>
    ELSE <<>>

\* verseNumberPattern.exec(fullText) with lastIndex at q: the first match at
\* or after q, or <<>> for null
RECURSIVE Exec(_, _)
Exec(s, q) ==
    IF q > Len(s) THEN <<>>
    ELSE IF MatchSpaced(s, q) # <<>> THEN MatchSpaced(s, q)
    ELSE Exec(s, q + 1)

\* a mutation of LastIndexAfter: the pattern without its flag g, whose
\* lastIndex stays at the start
LastIndexAtStart(m) == 1

\* the flag g: exec leaves lastIndex just after the match
LastIndexAfter(m) == m[3] + 1

-----------------------------------------------------------------------------
(* The inputs. *)

\* the characters of the exhaustive family: a letter, two kinds of white
\* space, the Arabic-Indic digits 0, 1 and 2 and the Extended digit 1
Alphabet == {97, 32, 10, ArabicIndicZero, ArabicIndicZero + 1,
             ArabicIndicZero + 2, ExtendedZero + 1}

RECURSIVE StringsOfLen(_, _)
StringsOfLen(A, n) ==
    IF n = 0 THEN {<<>>}
    ELSE {Append(s, c) : s \in StringsOfLen(A, n - 1), c \in A}

StringsUpTo(A, n) == UNION {StringsOfLen(A, k) : k \in 0 .. n}

\* the markers of the composed family: the numerals of 1, 2, 3 and 10
Marks == {numberToArabicIndic(1), numberToArabicIndic(2),
          numberToArabicIndic(3), numberToArabicIndic(10)}

\* nothing or one space
Gaps == {<<>>, <<32>>}

\* the text of the k-th segment: the k-th letter, or two of them around a
\* line feed when the input is wide
SegText(o, k) == IF o.wide THEN <<96 + k, 10, 96 + k>> ELSE <<96 + k>>

\* one segment: its text, then the marker between two gaps
Segments == [pre : Gaps, mark : Marks, post : Gaps]

SegString(o, k) ==
    SegText(o, k) \o o.segs[k].pre \o o.segs[k].mark \o o.segs[k].post

\* a composed input: white space or not, the segments, a last text or not
ComposedString(o) ==
    o.lead
    \o Concat([k \in 1 .. Len(o.segs) |-> SegString(o, k)])
    \o o.tail

SegLists == UNION {[1 .. n -> Segments] : n \in 0 .. MaxSegs}

ComposedOrigins ==
    {[kind |-> "composed", wide |-> w, lead |-> l, segs |-> ss, tail |-> t] :
        w \in BOOLEAN, l \in Gaps, ss \in SegLists, t \in {<<>>, <<122>>}}

AnyOrigin ==
    [kind |-> "any", wide |-> FALSE, lead |-> <<>>, segs |-> <<>>, tail |-> <<>>]

Routines == {"MID_STREAM", "END_OF_UNIT"}

\* the arguments of the decoder run on its own: digits 0, 1, 2 and 9 of the
\* three alphabets, a letter and a space
DecoderAlphabet ==
    UNION {{z, z + 1, z + 2, z + 9} :
              z \in {AsciiZero, ArabicIndicZero, ExtendedZero}} \cup {97, 32}

(* The surah names. *)

\* "التوبة", in Latin letters
NO_BISMILLAH_SURAH == "At-Tawbah"

\* "الفاتحة", in Latin letters
FATIHAH_SURAH == "Al-Fatihah"

\* "يونس", in Latin letters: the name GET takes when the request has none,
\* and the name the page starts with
DefaultSurah == "Yunus"

-----------------------------------------------------------------------------
(* The state machine. *)

\* no answer of the upstream source yet
NoResponse == [kind |-> "none", named |-> FALSE, hasText |-> FALSE,
               TextofSura |-> <<>>]

\* a caller has not returned yet
NoResult == [status |-> "none", bismillah |-> <<>>, verses |-> <<>>,
             rawText |-> <<>>]

\* no batch main runs
MainsIdle ==
    /\ results = <<>>
    /\ errors = <<>>
    /\ surahIndex = 1
    /\ quranData = <<>>
    /\ cursor = [surah |-> 1, unit |-> 0]
    /\ totalRequests = 0
    /\ successCount = 0
    /\ errorCount = 0
    /\ slept = 0
    /\ requested = FALSE

\* useState(...) of Home: the page as it is first rendered
PageIdle ==
    /\ surahInput = DefaultSurah
    /\ data = "null"
    /\ error = "null"
    /\ loading = FALSE
    /\ pending = {}
    /\ started = 0

Idle ==
    /\ parts = <<>>
    /\ i = 1
    /\ currentText = <<>>
    /\ expectedVerseNum = 1
    /\ verses = <<>>
    /\ num = NaN
    /\ round = 1
    /\ first = <<>>
    /\ positions = <<>>
    /\ lastVerseNum = 0
    /\ lastIndex = 1
    /\ name = ""
    /\ response = NoResponse
    /\ bismillah = <<>>
    /\ result = NoResult
    /\ MainsIdle
    /\ PageIdle

\* parseVersesFromContent is called with any string
Init ==
    /\ routine \in Routines
    /\ \/ /\ origin = AnyOrigin
          /\ content \in StringsUpTo(Alphabet, MaxLen)
       \/ /\ origin \in ComposedOrigins
          /\ content = ComposedString(origin)
    /\ pc = "split"
    /\ Idle

\* arabicIndicToNumber is called with any string
InitDecoder ==
    /\ routine = "decoder"
    /\ origin = AnyOrigin
    /\ content \in StringsUpTo(DecoderAlphabet, MaxDigits)
    /\ pc = "decode"
    /\ Idle

\* a mutation of PushVerse: the test and the push use the untrimmed text
PushVerseUntrimmed(vs, n, text) ==
    IF text # <<>>
    THEN Append(vs, [number |-> n, text |-> text])
    ELSE vs

\* const verseText = currentText.trim(); if (verseText) verses.push(...)
PushVerse(vs, n, text) ==
    IF Trim(text) # <<>>
    THEN Append(vs, [number |-> n, text |-> Trim(text)])
    ELSE vs

\* a mutation of IsExpected: any number not below the expected one passes
IsAtLeastExpected(n, e) == n >= e

\* num === expectedVerseNum
IsExpected(n, e) == n = e

\* the split and the three declarations that follow it
Split(r, ps) ==
    /\ pc = "split"
    /\ routine = r
    /\ parts' = ps
    /\ verses' = <<>>
    /\ currentText' = <<>>
    /\ expectedVerseNum' = 1
    /\ i' = 1
    /\ pc' = "loop"
    /\ UNCHANGED <<routine, content, num, round, first, origin, aside>>

\* a mutation of Accept: the expected number advances only with a unit
AcceptIfEmitted(r) ==
    /\ pc = "loop"
    /\ routine = r
    /\ i <= Len(parts)
    /\ isVerseNum(parts[i])
    /\ IsExpected(arabicIndicToNumber(parts[i]), expectedVerseNum)
    /\ num' = arabicIndicToNumber(parts[i])
    /\ verses' = PushVerse(verses, expectedVerseNum, currentText)
    /\ currentText' = <<>>
    /\ expectedVerseNum' =
          IF Trim(currentText) # <<>>
          THEN expectedVerseNum + 1 ELSE expectedVerseNum
    /\ i' = i + 1
    /\ UNCHANGED <<routine, content, parts, pc, round, first, origin, aside>>

\* a mutation of Accept: the expected number stays as it is
AcceptNoAdvance(r) ==
    /\ pc = "loop"
    /\ routine = r
    /\ i <= Len(parts)
    /\ isVerseNum(parts[i])
    /\ IsExpected(arabicIndicToNumber(parts[i]), expectedVerseNum)
    /\ num' = arabicIndicToNumber(parts[i])
    /\ verses' = PushVerse(verses, expectedVerseNum, currentText)
    /\ currentText' = <<>>
    /\ i' = i + 1
    /\ UNCHANGED <<routine, content, parts, expectedVerseNum, pc, round,
                   first, origin, aside>>

\* a part that is a verse number and equals the expected one
Accept(r) ==
    /\ pc = "loop"
    /\ routine = r
    /\ i <= Len(parts)
    /\ isVerseNum(parts[i])
    /\ IsExpected(arabicIndicToNumber(parts[i]), expectedVerseNum)
    /\ num' = arabicIndicToNumber(parts[i])
    /\ verses' = PushVerse(verses, expectedVerseNum, currentText)
    /\ currentText' = <<>>
    /\ expectedVerseNum' = expectedVerseNum + 1
    /\ i' = i + 1
    /\ UNCHANGED <<routine, content, parts, pc, round, first, origin, aside>>

\* a part that is a verse number but not the expected one
Reject(r, text) ==
    /\ pc = "loop"
    /\ routine = r
    /\ i <= Len(parts)
    /\ isVerseNum(parts[i])
    /\ ~IsExpected(arabicIndicToNumber(parts[i]), expectedVerseNum)
    /\ num' = arabicIndicToNumber(parts[i])
    /\ currentText' = text
    /\ i' = i + 1
    /\ UNCHANGED <<routine, content, parts, expectedVerseNum, verses, pc,
                   round, first, origin, aside>>

\* a part that is not a verse number
Text(r, text) ==
    /\ pc = "loop"
    /\ routine = r
    /\ i <= Len(parts)
    /\ ~isVerseNum(parts[i])
    /\ currentText' = text
    /\ i' = i + 1
    /\ UNCHANGED <<routine, content, parts, expectedVerseNum, verses, num, pc,
                   round, first, origin, aside>>

\* after the loop: the remaining text is the last verse
Finish(r) ==
    /\ pc = "loop"
    /\ routine = r
    /\ i > Len(parts)
    /\ verses' = PushVerse(verses, expectedVerseNum, currentText)
    /\ pc' = "done"
    /\ UNCHANGED <<routine, content, parts, i, currentText, expectedVerseNum,
                   num, round, first, origin, aside>>

(* parseVersesFromContent of the API route *)

ApiSplit == Split("MID_STREAM", SplitMidStream(content))

ApiAccept == Accept("MID_STREAM")

\* a mutation of ApiRejectText: the separating space is left out
ApiRejectGlued == currentText \o parts[i]

\* currentText += " " + part
ApiRejectText == currentText \o <<32>> \o parts[i]

ApiReject == Reject("MID_STREAM", ApiRejectText)

\* currentText += (currentText ? " " : "") + part
ApiPlainText ==
    currentText \o (IF currentText # <<>> THEN <<32>> ELSE <<>>) \o parts[i]

ApiText == Text("MID_STREAM", ApiPlainText)

ApiFinish == Finish("MID_STREAM")

(* parseVersesFromContent of the batch scraper *)

BatchSplit == Split("END_OF_UNIT", SplitEndOfUnit(content))

BatchAccept == Accept("END_OF_UNIT")

\* currentText += part
BatchRejectText == currentText \o parts[i]

BatchReject == Reject("END_OF_UNIT", BatchRejectText)

\* currentText += part
BatchPlainText == currentText \o parts[i]

BatchText == Text("END_OF_UNIT", BatchPlainText)

BatchFinish == Finish("END_OF_UNIT")

(* The text rebuilt from a unit list: each text, a space, the numeral of its *)
(* number, and a space between two units.                                    *)

RECURSIVE Reconstruct(_)
Reconstruct(vs) ==
    IF vs = <<>> THEN <<>>
    ELSE Head(vs).text \o <<32>> \o numberToArabicIndic(Head(vs).number)
         \o (IF Tail(vs) = <<>> THEN <<>> ELSE <<32>> \o Reconstruct(Tail(vs)))

\* the routine is run again on the text rebuilt from its own result
Rerun ==
    /\ pc = "done"
    /\ round = 1
    /\ first' = verses
    /\ content' = Reconstruct(verses)
    /\ round' = 2
    /\ pc' = "split"
    /\ parts' = <<>>
    /\ i' = 1
    /\ currentText' = <<>>
    /\ expectedVerseNum' = 1
    /\ verses' = <<>>
    /\ num' = NaN
    /\ UNCHANGED <<routine, origin, aside>>

\* arabicIndicToNumber on its own
Decode ==
    /\ pc = "decode"
    /\ num' = arabicIndicToNumber(content)
    /\ pc' = "decoded"
    /\ UNCHANGED <<routine, content, parts, i, currentText, expectedVerseNum,
                   verses, round, first, origin, aside>>

(* parseVerses of the API route *)

\* parseVerses is called with any string
InitParseVerses ==
    /\ routine = "parseVerses"
    /\ \/ /\ origin = AnyOrigin
          /\ content \in StringsUpTo(Alphabet, MaxLen)
       \/ /\ origin \in ComposedOrigins
          /\ content = ComposedString(origin)
    /\ pc = "exec"
    /\ Idle

\* the number that a match captures
MatchedNum(m) == arabicIndicToNumber(SubSeq(content, m[1] + 1, m[2]))

\* a match whose number is lastVerseNum + 1: its position is kept
ExecSequential ==
    /\ pc = "exec"
    /\ routine = "parseVerses"
    /\ Exec(content, lastIndex) # <<>>
    /\ LET m == Exec(content, lastIndex)
       IN  /\ MatchedNum(m) = lastVerseNum + 1
           /\ num' = MatchedNum(m)
           /\ positions' = Append(positions,
                                  [index |-> m[1], num |-> MatchedNum(m),
                                   fullMatch |-> SubSeq(content, m[1], m[3])])
           /\ lastVerseNum' = MatchedNum(m)
           /\ lastIndex' = LastIndexAfter(m)
    /\ UNCHANGED <<routine, content, parts, i, currentText, expectedVerseNum,
                   verses, pc, round, first, origin, callers, mains, page>>

\* a match whose number is not lastVerseNum + 1: nothing is kept
ExecOutOfSequence ==
    /\ pc = "exec"
    /\ routine = "parseVerses"
    /\ Exec(content, lastIndex) # <<>>
    /\ LET m == Exec(content, lastIndex)
       IN  /\ MatchedNum(m) # lastVerseNum + 1
           /\ num' = MatchedNum(m)
           /\ lastIndex' = LastIndexAfter(m)
    /\ UNCHANGED <<routine, content, parts, i, currentText, expectedVerseNum,
                   verses, pc, round, first, origin, positions, lastVerseNum,
                   callers, mains, page>>

\* exec returns null: the loop ends and lastIndex is back at the start
ExecNull ==
    /\ pc = "exec"
    /\ routine = "parseVerses"
    /\ Exec(content, lastIndex) = <<>>
    /\ lastIndex' = 1
    /\ i' = 1
    /\ pc' = "extract"
    /\ UNCHANGED <<routine, content, parts, currentText, expectedVerseNum,
                   verses, num, round, first, origin, positions, lastVerseNum,
                   callers, mains, page>>

\* the index just after the match kept at positions[k]
EndOf(k) == positions[k].index + Len(positions[k].fullMatch)

\* fullText.slice(start, end).trim() of the i-th position
VerseText(k) ==
    Trim(SubSeq(content, IF k = 1 THEN 1 ELSE EndOf(k - 1), EndOf(k) - 1))

\* one round of the extraction loop
ExtractVerse ==
    /\ pc = "extract"
    /\ i <= Len(positions)
    /\ verses' = Append(verses, [number |-> positions[i].num,
                                 text |-> VerseText(i)])
    /\ i' = i + 1
    /\ UNCHANGED <<routine, content, parts, currentText, expectedVerseNum,
                   num, pc, round, first, origin, aside>>

\* fullText.slice(lastPos.index + lastPos.fullMatch.length).trim()
RemainingText ==
    Trim(SubSeq(content, EndOf(Len(positions)), Len(content)))

\* a mutation of AddLastVerse: the text after the last position is a verse
\* also when no position was kept
AddLastVerseAlways ==
    /\ pc = "extract"
    /\ i > Len(positions)
    /\ verses' =
          IF positions = <<>>
          THEN (IF Trim(content) # <<>>
                THEN Append(verses, [number |-> 1, text |-> Trim(content)])
                ELSE verses)
          ELSE (IF RemainingText # <<>>
                THEN Append(verses, [number |-> positions[Len(positions)].num + 1,
                                     text |-> RemainingText])
                ELSE verses)
    /\ pc' = "returned"
    /\ UNCHANGED <<routine, content, parts, i, currentText, expectedVerseNum,
                   num, round, first, origin, aside>>

\* after the extraction: the text after the last position, then the return
AddLastVerse ==
    /\ pc = "extract"
    /\ i > Len(positions)
    /\ verses' =
          IF positions # <<>> /\ RemainingText # <<>>
          THEN Append(verses, [number |-> positions[Len(positions)].num + 1,
                               text |-> RemainingText])
          ELSE verses
    /\ pc' = "returned"
    /\ UNCHANGED <<routine, content, parts, i, currentText, expectedVerseNum,
                   num, round, first, origin, aside>>

Next ==
    \/ ApiSplit \/ ApiAccept \/ ApiReject \/ ApiText \/ ApiFinish
    \/ BatchSplit \/ BatchAccept \/ BatchReject \/ BatchText \/ BatchFinish
    \/ Rerun

Spec == Init /\ [][Next]_vars

NextDecoder == Decode

SpecDecoder == InitDecoder /\ [][NextDecoder]_vars

(* The three segmentation routines, each run once and to its end. *)

InitSegment == Init \/ InitParseVerses

NextSegment ==
    \/ ApiSplit \/ ApiAccept \/ ApiReject \/ ApiText \/ ApiFinish
    \/ BatchSplit \/ BatchAccept \/ BatchReject \/ BatchText \/ BatchFinish
    \/ ExecSequential \/ ExecOutOfSequence \/ ExecNull
    \/ ExtractVerse \/ AddLastVerse

\* a routine that can take a step takes it: the code runs without a pause
SpecSegment == InitSegment /\ [][NextSegment]_vars /\ WF_vars(NextSegment)

(* The parts that one routine split, fed to the loop of the other one. *)

\* the loop of the other routine runs on the same parts
Refeed ==
    /\ pc = "done"
    /\ round = 1
    /\ first' = verses
    /\ routine' = IF routine = "MID_STREAM" THEN "END_OF_UNIT" ELSE "MID_STREAM"
    /\ round' = 2
    /\ pc' = "loop"
    /\ i' = 1
    /\ currentText' = <<>>
    /\ expectedVerseNum' = 1
    /\ verses' = <<>>
    /\ num' = NaN
    /\ UNCHANGED <<content, parts, origin, aside>>

NextRefeed ==
    \/ ApiSplit \/ ApiAccept \/ ApiReject \/ ApiText \/ ApiFinish
    \/ BatchSplit \/ BatchAccept \/ BatchReject \/ BatchText \/ BatchFinish
    \/ Refeed

SpecRefeed == Init /\ [][NextRefeed]_vars

-----------------------------------------------------------------------------
(* The callers of parseVersesFromContent: fetchSurah of the batch scraper   *)
(* and GET of the API route.  The routine tells the caller: END_OF_UNIT is  *)
(* the one of fetchSurah, MID_STREAM the one of GET.                        *)

SurahNames == {NO_BISMILLAH_SURAH, FATIHAH_SURAH, DefaultSurah}

\* the third fragment of a payload: a preamble "p ", a preamble that ends
\* with the marker 1, the first verse, white space, or nothing
ThirdFragments ==
    {<<112, 32>>, <<112, 32, ArabicIndicZero + 1, 32>>,
     <<97, 32, ArabicIndicZero + 1, 32>>, <<32>>, <<>>}

\* the later fragments: verses with their marker, with or without white
\* space after it, and a text without marker
BodyFragments ==
    {<<97, 32, ArabicIndicZero + 1, 32>>, <<97, 32, ArabicIndicZero + 1>>,
     <<98, 32, ArabicIndicZero + 2, 32>>, <<99>>}

\* TextofSura: a header "h", an empty fragment, the third fragment and the
\* later ones; or an array too short to have a third fragment
Payloads ==
    {<<>>, <<<<104>>>>, <<<<104>>, <<>>>>}
    \cup {<<<<104>>, <<>>, third>> \o body :
             third \in ThirdFragments,
             body \in UNION {[1 .. n -> BodyFragments] : n \in 0 .. MaxFrags}}

\* what the upstream source can answer: a failed fetch, a status that is not
\* ok, a body without NameofSura or without TextofSura, or a full body
Responses ==
    {[kind |-> "network_error", named |-> FALSE, hasText |-> FALSE,
      TextofSura |-> <<>>],
     [kind |-> "http_error", named |-> FALSE, hasText |-> FALSE,
      TextofSura |-> <<>>],
     [kind |-> "ok", named |-> FALSE, hasText |-> TRUE,
      TextofSura |-> <<<<104>>>>],
     [kind |-> "ok", named |-> TRUE, hasText |-> FALSE, TextofSura |-> <<>>]}
    \cup {[kind |-> "ok", named |-> TRUE, hasText |-> TRUE, TextofSura |-> t] :
             t \in Payloads}

\* a caller is given a name; GET may be given none
InitCallers ==
    /\ routine \in Routines
    /\ origin = AnyOrigin
    /\ content = <<>>
    /\ pc = "fetch"
    /\ parts = <<>>
    /\ i = 1
    /\ currentText = <<>>
    /\ expectedVerseNum = 1
    /\ verses = <<>>
    /\ num = NaN
    /\ round = 1
    /\ first = <<>>
    /\ positions = <<>>
    /\ lastVerseNum = 0
    /\ lastIndex = 1
    /\ name \in SurahNames \cup (IF routine = "MID_STREAM" THEN {""} ELSE {})
    /\ response = NoResponse
    /\ bismillah = <<>>
    /\ result = NoResult
    /\ MainsIdle
    /\ PageIdle

\* searchParams.get("surah") || "يونس"
surahName == IF name = "" THEN DefaultSurah ELSE name

\* TextofSura.slice(n).join("").trim()
SliceJoinTrim(t, n) == Trim(Concat(SubSeq(t, n + 1, Len(t))))

\* TextofSura[2]?.trim() || ""
ThirdTrimmed(t) == IF Len(t) >= 3 THEN Trim(t[3]) ELSE <<>>

\* !response.ok, a body that misses a field, or a fetch that threw
IsRejected(resp) == ~(resp.kind = "ok" /\ resp.named /\ resp.hasText)

\* await fetch(url) and await response.json(), the source answering from rs
FetchFrom(rs) ==
    /\ pc = "fetch"
    /\ response' \in rs
    /\ pc' = "check"
    /\ UNCHANGED <<routine, content, parts, i, currentText, expectedVerseNum,
                   verses, num, round, first, origin, positions, lastVerseNum,
                   lastIndex, name, bismillah, result, mains, page>>

Fetch == FetchFrom(Responses)

\* the caller ends without a collection
Fail(r, status) ==
    /\ pc = "check"
    /\ routine = r
    /\ IsRejected(response)
    /\ result' = [NoResult EXCEPT !.status = status]
    /\ pc' = "failed"
    /\ UNCHANGED <<routine, content, parts, i, currentText, expectedVerseNum,
                   verses, num, round, first, origin, positions, lastVerseNum,
                   lastIndex, name, response, bismillah, mains, page>>

\* the caller hands the main content to its parseVersesFromContent
Call(r, b, mainContent) ==
    /\ pc = "check"
    /\ routine = r
    /\ ~IsRejected(response)
    /\ bismillah' = b
    /\ content' = mainContent
    /\ pc' = "split"
    /\ UNCHANGED <<routine, parts, i, currentText, expectedVerseNum, verses,
                   num, round, first, origin, positions, lastVerseNum,
                   lastIndex, name, response, result, mains, page>>

\* the caller returns the collection
Return(r) ==
    /\ pc = "done"
    /\ routine = r
    /\ result' = [status |-> "collection", bismillah |-> bismillah,
                  verses |-> verses,
                  rawText |-> SliceJoinTrim(response.TextofSura, 0)]
    /\ pc' = "responded"
    /\ UNCHANGED <<routine, content, parts, i, currentText, expectedVerseNum,
                   verses, num, round, first, origin, positions, lastVerseNum,
                   lastIndex, name, response, bismillah, mains, page>>

(* fetchSurah *)

IsSpecial(n) == n = NO_BISMILLAH_SURAH \/ n = FATIHAH_SURAH

\* let bismillah, after the three branches
FetchSurahBismillah(n, t) == IF IsSpecial(n) THEN <<>> ELSE ThirdTrimmed(t)

\* let mainContent, after the three branches
FetchSurahMainContent(n, t) ==
    IF IsSpecial(n) THEN SliceJoinTrim(t, 2) ELSE SliceJoinTrim(t, 3)

FetchSurahThrow == Fail("END_OF_UNIT", "thrown")

FetchSurahCall ==
    Call("END_OF_UNIT", FetchSurahBismillah(name, response.TextofSura),
         FetchSurahMainContent(name, response.TextofSura))

FetchSurahReturn == Return("END_OF_UNIT")

(* GET *)

\* const bismillah
GetBismillah(n, t) == ThirdTrimmed(t)

\* a mutation of GetMainContent: the third fragment stays in the content
GetMainContentWithThird(n, t) == SliceJoinTrim(t, 2)

\* const mainContent
GetMainContent(n, t) == SliceJoinTrim(t, 3)

\* the three error responses: the status of the source, or 500
GetError ==
    Fail("MID_STREAM",
         IF response.kind = "http_error" THEN "source_status" ELSE "500")

GetCall ==
    Call("MID_STREAM", GetBismillah(surahName, response.TextofSura),
         GetMainContent(surahName, response.TextofSura))

GetReturn == Return("MID_STREAM")

NextCallers ==
    \/ Fetch
    \/ FetchSurahThrow \/ FetchSurahCall \/ FetchSurahReturn
    \/ GetError \/ GetCall \/ GetReturn
    \/ ApiSplit \/ ApiAccept \/ ApiReject \/ ApiText \/ ApiFinish
    \/ BatchSplit \/ BatchAccept \/ BatchReject \/ BatchText \/ BatchFinish

SpecCallers == InitCallers /\ [][NextCallers]_vars

-----------------------------------------------------------------------------
(* The two batch mains: main of the surah scraper, which calls fetchSurah   *)
(* for each name of allSurahs, and main of scrape-numerical, which attaches *)
(* numerics to the units of quran.json.                                     *)

\* the variables of a call of fetchSurah and of its parseVersesFromContent
frame == <<content, parts, i, currentText, expectedVerseNum, verses, num,
           name, response, bismillah, result>>

\* the variables that no main touches
unused == <<routine, round, first, origin, positions, lastVerseNum, lastIndex,
            page>>

scraperVars == <<results, errors, surahIndex>>

enrichVars == <<quranData, cursor, totalRequests, successCount, errorCount>>

\* three of the 114 names of allSurahs, in their order
allSurahs == <<FATIHAH_SURAH, NO_BISMILLAH_SURAH, DefaultSurah>>

\* setTimeout(r, 300) of the surah scraper
ScraperDelay == 300

DELAY_MS == 800

TARGET_SURAHS == {1, 57, 104}

\* the answers of the source to the surah scraper: the rejected ones, the
\* payloads of at most three fragments and those with the one later
\* fragment "b ٢ "
BatchResponses ==
    {resp \in Responses :
        \/ Len(resp.TextofSura) <= 3
        \/ /\ Len(resp.TextofSura) = 4
           /\ resp.TextofSura[4] = <<98, 32, ArabicIndicZero + 2, 32>>}

\* main of the surah scraper starts
InitScraper ==
    /\ routine = "END_OF_UNIT"
    /\ origin = AnyOrigin
    /\ content = <<>>
    /\ pc = "main"
    /\ Idle

\* one round of the loop up to the call: fetchSurah(name) starts afresh and
\* issues its request
MainAttempt ==
    /\ pc = "main"
    /\ surahIndex <= Len(allSurahs)
    /\ name' = allSurahs[surahIndex]
    /\ response' = NoResponse
    /\ bismillah' = <<>>
    /\ result' = NoResult
    /\ content' = <<>>
    /\ parts' = <<>>
    /\ i' = 1
    /\ currentText' = <<>>
    /\ expectedVerseNum' = 1
    /\ verses' = <<>>
    /\ num' = NaN
    /\ slept' = 0
    /\ requested' = TRUE
    /\ pc' = "fetch"
    /\ UNCHANGED <<unused, scraperVars, enrichVars>>

MainFetch == FetchFrom(BatchResponses)

\* fetchSurah returned: results.push and the delay
MainSucceed ==
    /\ pc = "responded"
    /\ results' = Append(results, [surahNumber |-> surahIndex,
                                   bismillah |-> result.bismillah,
                                   verses |-> result.verses,
                                   rawText |-> result.rawText])
    /\ slept' = slept + ScraperDelay
    /\ surahIndex' = surahIndex + 1
    /\ pc' = "main"
    /\ UNCHANGED <<unused, frame, errors, enrichVars, requested>>

\* a mutation of MainCatch: the loop ends at the first error
MainCatchAndStop ==
    /\ pc = "failed"
    /\ errors' = Append(errors, [surahNumber |-> surahIndex, name |-> name,
                                 error |-> result.status])
    /\ surahIndex' = Len(allSurahs) + 1
    /\ pc' = "main"
    /\ UNCHANGED <<unused, frame, results, enrichVars, slept, requested>>

\* fetchSurah threw: errors.push, and the loop goes on
MainCatch ==
    /\ pc = "failed"
    /\ errors' = Append(errors, [surahNumber |-> surahIndex, name |-> name,
                                 error |-> result.status])
    /\ surahIndex' = surahIndex + 1
    /\ pc' = "main"
    /\ UNCHANGED <<unused, frame, results, enrichVars, slept, requested>>

\* after the loop: writeFileSync of results
MainSave ==
    /\ pc = "main"
    /\ surahIndex > Len(allSurahs)
    /\ pc' = "saved"
    /\ UNCHANGED <<unused, frame, mains>>

(* main of scrape-numerical *)

\* the surahNumber lists of the files: targets and others, in rising order
SurahNumberLists == {<<1>>, <<2>>, <<1, 2>>, <<2, 57>>, <<1, 2, 104>>}

\* the bismillah of a surah: none, white space, or a text
Bismillahs == {<<>>, <<32>>, <<112>>}

\* a surah of quran.json with nv verses; old tells the numerics that an
\* earlier pass left, "absent" when there was none
SurahOf(n, b, nv, old) ==
    [surahNumber |-> n, bismillah |-> b, bismillahNumerics |-> old,
     verses |-> [k \in 1 .. nv |->
                   [number |-> k, text |-> <<96 + k>>, numerics |-> old]]]

QuranFiles ==
    UNION {{[k \in 1 .. Len(ns) |-> SurahOf(ns[k], bs[k], nv, old)] :
                bs \in [1 .. Len(ns) -> Bismillahs],
                nv \in 0 .. MaxVerses,
                old \in {"absent", "old"}} :
           ns \in SurahNumberLists}

\* quran.json is loaded
InitEnrich ==
    /\ routine = "scrape-numerical"
    /\ origin = AnyOrigin
    /\ content = <<>>
    /\ pc = "enrich"
    /\ parts = <<>>
    /\ i = 1
    /\ currentText = <<>>
    /\ expectedVerseNum = 1
    /\ verses = <<>>
    /\ num = NaN
    /\ round = 1
    /\ first = <<>>
    /\ positions = <<>>
    /\ lastVerseNum = 0
    /\ lastIndex = 1
    /\ name = ""
    /\ response = NoResponse
    /\ bismillah = <<>>
    /\ result = NoResult
    /\ results = <<>>
    /\ errors = <<>>
    /\ surahIndex = 1
    /\ quranData \in QuranFiles
    /\ cursor = [surah |-> 1, unit |-> 0]
    /\ totalRequests = 0
    /\ successCount = 0
    /\ errorCount = 0
    /\ slept = 0
    /\ requested = FALSE
    /\ PageIdle

\* the loop is at a surah
AtSurah == pc = "enrich" /\ cursor.surah <= Len(quranData)

\* the surah of the outer loop
surah == quranData[cursor.surah]

IsTarget == surah.surahNumber \in TARGET_SURAHS

\* surah.bismillah && surah.bismillah.trim()
HasBismillah == Trim(surah.bismillah) # <<>>

\* the loop is at a unit that gets a request: the bismillah or a verse
AtUnit ==
    /\ AtSurah
    /\ IsTarget
    /\ \/ cursor.unit = 0 /\ HasBismillah
       \/ cursor.unit \in 1 .. Len(surah.verses)

\* if (!TARGET_SURAHS.includes(surah.surahNumber)) continue
EnrichSkipSurah ==
    /\ AtSurah
    /\ ~IsTarget
    /\ cursor' = [surah |-> cursor.surah + 1, unit |-> 0]
    /\ UNCHANGED <<unused, frame, scraperVars, quranData, totalRequests,
                   successCount, errorCount, slept, requested, pc>>

\* a target without bismillah: on to its verses
EnrichSkipBismillah ==
    /\ AtSurah
    /\ IsTarget
    /\ cursor.unit = 0
    /\ ~HasBismillah
    /\ cursor' = [cursor EXCEPT !.unit = 1]
    /\ UNCHANGED <<unused, frame, scraperVars, quranData, totalRequests,
                   successCount, errorCount, slept, requested, pc>>

\* the verses of a target are done: on to the next surah
EnrichNextSurah ==
    /\ AtSurah
    /\ IsTarget
    /\ cursor.unit > Len(surah.verses)
    /\ cursor' = [surah |-> cursor.surah + 1, unit |-> 0]
    /\ UNCHANGED <<unused, frame, scraperVars, quranData, totalRequests,
                   successCount, errorCount, slept, requested, pc>>

\* await sleep(DELAY_MS)
EnrichSleep ==
    /\ AtUnit
    /\ slept' = slept + DELAY_MS
    /\ pc' = "request"
    /\ UNCHANGED <<unused, frame, scraperVars, enrichVars, requested>>

\* fetchNumericalData issues its request
EnrichRequest ==
    /\ pc = "request"
    /\ slept' = 0
    /\ requested' = TRUE
    /\ pc' = "await"
    /\ UNCHANGED <<unused, frame, scraperVars, enrichVars>>

\* a mutation of Attached: the verse also takes the text that was sent
AttachedWithCleanText(file, c) ==
    IF c.unit = 0
    THEN [file EXCEPT ![c.surah].bismillahNumerics = "new"]
    ELSE [file EXCEPT ![c.surah].verses[c.unit].numerics = "new",
                      ![c.surah].verses[c.unit].text = <<32>> \o @]

\* the data with the result attached to the unit of the cursor
Attached(file, c) ==
    IF c.unit = 0
    THEN [file EXCEPT ![c.surah].bismillahNumerics = "new"]
    ELSE [file EXCEPT ![c.surah].verses[c.unit].numerics = "new"]

\* the request resolved: the numerics are attached
EnrichResolve ==
    /\ pc = "await"
    /\ quranData' = Attached(quranData, cursor)
    /\ successCount' = successCount + 1
    /\ totalRequests' = totalRequests + 1
    /\ cursor' = [cursor EXCEPT !.unit = @ + 1]
    /\ pc' = "enrich"
    /\ UNCHANGED <<unused, frame, scraperVars, errorCount, slept, requested>>

\* the request was rejected: the error is counted
EnrichReject ==
    /\ pc = "await"
    /\ errorCount' = errorCount + 1
    /\ totalRequests' = totalRequests + 1
    /\ cursor' = [cursor EXCEPT !.unit = @ + 1]
    /\ pc' = "enrich"
    /\ UNCHANGED <<unused, frame, scraperVars, quranData, successCount,
                   slept, requested>>

\* after the loop: writeFileSync of quranData
EnrichSave ==
    /\ pc = "enrich"
    /\ cursor.surah > Len(quranData)
    /\ pc' = "written"
    /\ UNCHANGED <<unused, frame, mains>>

InitMains == InitScraper \/ InitEnrich

NextMains ==
    \/ MainAttempt \/ MainFetch \/ MainSucceed \/ MainCatch \/ MainSave
    \/ FetchSurahThrow \/ FetchSurahCall \/ FetchSurahReturn
    \/ BatchSplit \/ BatchAccept \/ BatchReject \/ BatchText \/ BatchFinish
    \/ EnrichSkipSurah \/ EnrichSkipBismillah \/ EnrichNextSurah
    \/ EnrichSleep \/ EnrichRequest \/ EnrichResolve \/ EnrichReject
    \/ EnrichSave

SpecMains == InitMains /\ [][NextMains]_vars

-----------------------------------------------------------------------------
(* The scraper page: Home and its scrape.  A call of scrape runs to its     *)
(* await in one step; its response arrives in a later step, and other calls *)
(* and other responses may come in between.                                 *)

\* what the user can type: nothing, a space, or a name
TypedNames == {"", " ", DefaultSurah, FATIHAH_SURAH}

\* !surahName.trim()
IsBlankName(n) == n \in {"", " "}

\* the page is open
InitPage ==
    /\ routine = "page"
    /\ origin = AnyOrigin
    /\ content = <<>>
    /\ pc = "page"
    /\ Idle

\* the variables of the model that the page does not have
offPage == <<routine, content, parts, i, currentText, expectedVerseNum,
             verses, num, pc, round, first, origin, positions, lastVerseNum,
             lastIndex, callers, mains>>

\* onChange: setSurahName(e.target.value)
SetSurahName ==
    /\ pc = "page"
    /\ surahInput' \in TypedNames \ {surahInput}
    /\ UNCHANGED <<offPage, data, error, loading, pending, started>>

\* scrape up to its await, for a name that is not blank (it returns at once
\* for a blank one): the three setters, then the request is sent
Scrape(enabled) ==
    /\ pc = "page"
    /\ enabled
    /\ ~IsBlankName(surahInput)
    /\ started < MaxScrapes
    /\ loading' = TRUE
    /\ error' = "null"
    /\ data' = "null"
    /\ pending' = pending \cup {[id |-> started + 1, surah |-> surahInput]}
    /\ started' = started + 1
    /\ UNCHANGED <<offPage, surahInput>>

\* onKeyDown: e.key === "Enter" && scrape()
PressEnter == Scrape(TRUE)

\* onClick of the button, which is disabled while loading
ClickButton == Scrape(~loading)

\* the rest of a call of scrape once its response is there: setData or
\* setError, then setLoading(false) in finally
Settle(req, d, e) ==
    /\ pc = "page"
    /\ req \in pending
    /\ data' = d
    /\ error' = e
    /\ loading' = FALSE
    /\ pending' = pending \ {req}
    /\ UNCHANGED <<offPage, surahInput, started>>

\* res.ok: setData(json)
ResponseOk == \E req \in pending : Settle(req, req.surah, error)

\* !res.ok: setError(json.error || "Failed to fetch data")
ResponseNotOk == \E req \in pending : Settle(req, data, "Failed to fetch data")

\* fetch or res.json() threw: setError("Network error: " + String(err))
ResponseThrown == \E req \in pending : Settle(req, data, "Network error")

NextPage ==
    \/ SetSurahName \/ PressEnter \/ ClickButton
    \/ ResponseOk \/ ResponseNotOk \/ ResponseThrown

SpecPage == InitPage /\ [][NextPage]_vars

-----------------------------------------------------------------------------
(* Vocabulary of the properties. *)

Done == pc = "done"

\* the parts before the loop index that test as verse numbers
CandidatesSeen == {k \in 1 .. Len(parts) : k < i /\ isVerseNum(parts[k])}

AllSpace(s) == \A k \in 1 .. Len(s) : IsSpace(s[k])

HasNumeralChar(s) == \E k \in 1 .. Len(s) : IsNumeralChar(s[k])

\* the first index from p on that holds white space, or Len(s) + 1
RECURSIVE WordEnd(_, _)
WordEnd(s, p) ==
    IF p > Len(s) \/ IsSpace(s[p]) THEN p ELSE WordEnd(s, p + 1)

\* the words of a string: its maximal runs of characters other than white space
RECURSIVE Words(_)
Words(s) ==
    LET t == TrimStart(s)
    IN  IF t = <<>> THEN <<>>
        ELSE <<SubSeq(t, 1, WordEnd(t, 1) - 1)>>
             \o Words(SubSeq(t, WordEnd(t, 1), Len(t)))

\* the maximal runs of numeral characters of a string
NumeralRuns(s) ==
    {SubSeq(s, p, RunEnd(s, p)) :
        p \in {q \in 1 .. Len(s) :
                 IsNumeralChar(s[q]) /\ (q = 1 \/ ~IsNumeralChar(s[q - 1]))}}

-----------------------------------------------------------------------------
(* C1: in the list a routine returns, the unit at 0-based index k has      *)
(* number k + 1 (no gaps), for both routines and every content.            *)
(* The routines break it: a marker accepted over an empty buffer advances  *)
(* the expected number and emits nothing.                                  *)
C1_NoGaps ==
    Done => \A k \in 1 .. Len(verses) : verses[k].number = k

(* C2: the expected number starts at 1 and the parts are walked left to    *)
(* right; a candidate is a boundary (the buffer is reset and the expected  *)
(* number advances by one) exactly when its value equals the expected      *)
(* number, and any other candidate leaves the expected number and the      *)
(* list as they are and stays in the buffer.                               *)
C2_SequentialAcceptance ==
    [][/\ pc = "split" => expectedVerseNum' = 1 /\ i' = 1
       /\ (pc = "loop" /\ i <= Len(parts)) => i' = i + 1
       /\ (pc = "loop" /\ i <= Len(parts) /\ isVerseNum(parts[i])) =>
            IF arabicIndicToNumber(parts[i]) = expectedVerseNum
            THEN /\ expectedVerseNum' = expectedVerseNum + 1
                 /\ currentText' = <<>>
            ELSE /\ expectedVerseNum' = expectedVerseNum
                 /\ verses' = verses
                 /\ Len(currentText') >= Len(currentText) + Len(parts[i])
      ]_vars

\* a finished run in which one candidate was accepted and another rejected
C2_Witness ==
    /\ Done
    /\ round = 1
    /\ expectedVerseNum = 2
    /\ Cardinality(CandidatesSeen) >= 2

(* C3: every unit, in every state of either routine, has a text that is    *)
(* not empty and neither starts nor ends with white space; a would-be unit *)
(* with an empty trimmed text is not emitted.                              *)
C3_TextsTrimmedNonEmpty ==
    \A k \in 1 .. Len(verses) :
        /\ verses[k].text # <<>>
        /\ ~IsSpace(verses[k].text[1])
        /\ ~IsSpace(verses[k].text[Len(verses[k].text)])

\* a finished run that accepted two markers and dropped the empty unit of one
C3_Witness ==
    /\ Done
    /\ round = 1
    /\ expectedVerseNum = 3
    /\ Len(verses) = 1

-----------------------------------------------------------------------------
\* t1 M(1) t2 M(2) ... tn M(n), n >= 1: every text is followed by white space
\* and the numeral of its position, every numeral by white space or the end
WellFormed(o) ==
    /\ o.kind = "composed"
    /\ Len(o.segs) >= 1
    /\ o.tail = <<>>
    /\ \A k \in 1 .. Len(o.segs) :
          /\ o.segs[k].mark = numberToArabicIndic(k)
          /\ o.segs[k].pre # <<>>
          /\ (o.segs[k].post # <<>> \/ k = Len(o.segs))

(* C4: on well-formed content t1 M(1) ... tn M(n), with or without white   *)
(* space around it, both routines return exactly the units (k, trim(tk)),  *)
(* k = 1 .. n.  The texts are texts proper: each holds a character that is *)
(* not white space.                                                        *)
C4_WellFormedContent ==
    (Done /\ round = 1 /\ WellFormed(origin)) =>
        verses = [k \in 1 .. Len(origin.segs) |->
                     [number |-> k, text |-> Trim(SegText(origin, k))]]

\* a finished run of the API routine on well-formed content of two units
C4_Witness ==
    /\ Done
    /\ round = 1
    /\ routine = "MID_STREAM"
    /\ WellFormed(origin)
    /\ Len(origin.segs) = 2
    /\ origin.lead # <<>>
    /\ origin.wide
    /\ Len(verses) = 2

(* C5: under MID_STREAM, on content that holds a character other than      *)
(* white space and no numeral run with the value 1, every candidate is     *)
(* rejected, the expected number stays 1 and the result is one unit,       *)
(* numbered 1, whose words are the words of the content in their order.    *)
C5_NoMarkerOne ==
    (/\ pc \in {"loop", "done"}
     /\ routine = "MID_STREAM"
     /\ ~AllSpace(content)
     /\ \A r \in NumeralRuns(content) : arabicIndicToNumber(r) # 1) =>
        /\ expectedVerseNum = 1
        /\ Done =>
             /\ Len(verses) = 1
             /\ verses[1].number = 1
             /\ Words(verses[1].text) = Words(content)

\* the API routine finished on text with the markers 10 and then 2
C5_Witness ==
    /\ Done
    /\ round = 1
    /\ routine = "MID_STREAM"
    /\ origin.kind = "composed"
    /\ Len(origin.segs) = 2
    /\ origin.segs[1].mark = numberToArabicIndic(10)
    /\ origin.segs[2].mark = numberToArabicIndic(2)
    /\ Cardinality(CandidatesSeen) = 2
    /\ Len(verses) = 1

\* text, the marker 1 followed by white space, text, the numeral 3, text
GapForm(o) ==
    /\ o.kind = "composed"
    /\ Len(o.segs) = 2
    /\ o.segs[1].mark = numberToArabicIndic(1)
    /\ o.segs[1].post # <<>>
    /\ o.segs[2].mark = numberToArabicIndic(3)
    /\ o.tail # <<>>

\* what follows the first segment of a composed input
Remainder(o) == SegString(o, 2) \o o.tail

(* C6: under END_OF_UNIT, on text, marker 1, text, marker 3, text, the     *)
(* result is unit 1 with the text before the marker 1 and one last unit,   *)
(* numbered 2, whose text is the remainder (word for word) with the        *)
(* numeral 3 in it.                                                        *)
(* The batch routine breaks it: the white space after the rejected marker  *)
(* is consumed by the split and not put back, so the numeral is glued to   *)
(* the text that follows it.                                               *)
C6_GapRejection ==
    (Done /\ round = 1 /\ routine = "END_OF_UNIT" /\ GapForm(origin)) =>
        /\ Len(verses) = 2
        /\ verses[1] = [number |-> 1, text |-> Trim(SegText(origin, 1))]
        /\ verses[2].number = 2
        /\ Words(verses[2].text) = Words(Remainder(origin))

(* C7: a routine run on the text rebuilt from its own result (each text    *)
(* followed by the numeral of its number) returns that result again.       *)
(* The routines break it: a result with a gap in its numbers (C1) is not   *)
(* reproduced, and under MID_STREAM neither is a unit whose text ends in   *)
(* a rejected numeral.                                                     *)
C7_Idempotent ==
    (Done /\ round = 2) => verses = first

(* C8: content of white space alone, the empty string included, gives the  *)
(* empty list under both routines.                                         *)
C8_WhiteSpaceOnly ==
    (Done /\ AllSpace(content)) => verses = <<>>

\* a finished run on two or more characters of white space
C8_Witness ==
    /\ Done
    /\ round = 1
    /\ Len(content) >= 2
    /\ AllSpace(content)
    /\ content[1] # content[2]

\* the text is the content without the white space at its two ends
IsContentTrimmed(text, s) ==
    /\ text # <<>>
    /\ ~IsSpace(text[1])
    /\ ~IsSpace(text[Len(text)])
    /\ \E a \in 1 .. Len(s) :
          /\ a + Len(text) - 1 <= Len(s)
          /\ text = SubSeq(s, a, a + Len(text) - 1)
          /\ AllSpace(SubSeq(s, 1, a - 1))
          /\ AllSpace(SubSeq(s, a + Len(text), Len(s)))

(* C9 as stated: content with no numeral character gives exactly one unit, *)
(* numbered 1, with the trimmed content as its text.  It fails on content  *)
(* of white space alone, which has no numeral character and gives no unit. *)
C9_NoNumeralOneUnit ==
    (Done /\ ~HasNumeralChar(content)) =>
        /\ Len(verses) = 1
        /\ verses[1].number = 1
        /\ IsContentTrimmed(verses[1].text, content)

(* C9 amended: content with no numeral character and with a character      *)
(* other than white space gives exactly one unit, numbered 1, with the     *)
(* trimmed content as its text, under both routines.                       *)
C9_NoNumeralNonBlankOneUnit ==
    (Done /\ ~HasNumeralChar(content) /\ ~AllSpace(content)) =>
        /\ Len(verses) = 1
        /\ verses[1].number = 1
        /\ IsContentTrimmed(verses[1].text, content)

\* a finished run on letters with white space inside and at both ends
C9_Witness ==
    /\ Done
    /\ round = 1
    /\ content = <<32, 97, 10, 97>>
    /\ Len(verses) = 1

\* the digits of the three alphabets
IsDecimalDigit(c) == IsNumeralChar(c) \/ IsAsciiDigit(c)

\* the 0-9 value of a digit of one of the three alphabets
ValueOfDigit(c) ==
    CASE c \in AsciiZero .. (AsciiZero + 9) -> c - AsciiZero
      [] c \in ArabicIndicZero .. (ArabicIndicZero + 9) -> c - ArabicIndicZero
      [] c \in ExtendedZero .. (ExtendedZero + 9) -> c - ExtendedZero

\* base 10, the leftmost digit the most significant
RECURSIVE BaseTen(_)
BaseTen(s) ==
    IF s = <<>> THEN 0
    ELSE 10 * BaseTen(SubSeq(s, 1, Len(s) - 1)) + ValueOfDigit(s[Len(s)])

(* C10: for a non-empty string of digits of the Arabic-Indic, Extended     *)
(* Arabic-Indic and ASCII alphabets, in any mix, arabicIndicToNumber is    *)
(* the base-10 number of the digits' values, leftmost most significant.    *)
C10_DecodesBaseTen ==
    (/\ pc = "decoded"
     /\ content # <<>>
     /\ \A k \in 1 .. Len(content) : IsDecimalDigit(content[k])) =>
        num = BaseTen(content)

\* the digits 1, 0, 2 of three different alphabets decoded to 102
C10_Witness ==
    /\ pc = "decoded"
    /\ content = <<ArabicIndicZero + 1, ExtendedZero, AsciiZero + 2>>
    /\ num = 102

-----------------------------------------------------------------------------
\* the loop is at a part that tests as a verse number
AtCandidate == pc = "loop" /\ i <= Len(parts) /\ isVerseNum(parts[i])

\* the loop is at a part that does not test as a verse number
AtText == pc = "loop" /\ i <= Len(parts) /\ ~isVerseNum(parts[i])

\* the part before the loop index was a rejected candidate: it tested as a
\* verse number and the buffer was not reset
AfterRejected ==
    /\ pc = "loop"
    /\ i > 1
    /\ isVerseNum(parts[i - 1])
    /\ currentText # <<>>

(* C17: the digits of a rejected candidate are set off by one space from   *)
(* the text before and after them, under both routines; stated here by its *)
(* last clause: the text that follows a rejected candidate is appended to  *)
(* the buffer after one space, never glued to the digits.                  *)
(* The batch routine breaks it: it appends with no space, while the split  *)
(* has consumed the white space that followed the digits.                  *)
C17_RejectedSpaced ==
    [][(AtText /\ AfterRejected /\ parts[i] # <<>> /\ ~IsSpace(parts[i][1])) =>
           currentText' = currentText \o <<32>> \o parts[i]
      ]_vars

\* the number of candidates among the first j parts that were accepted, told
\* by replaying the acceptance rule from 1
RECURSIVE AcceptedAmong(_, _)
AcceptedAmong(ps, j) ==
    IF j = 0 THEN 0
    ELSE LET before == AcceptedAmong(ps, j - 1)
         IN  IF isVerseNum(ps[j]) /\ arabicIndicToNumber(ps[j]) = before + 1
             THEN before + 1
             ELSE before

(* C18: accepting a marker resets the buffer and adds exactly 1 to the     *)
(* expected number whether or not a unit is emitted, so the expected       *)
(* number is 1 plus the number of markers accepted so far, and a remainder *)
(* with a non-empty trimmed text becomes the last unit under that number.  *)
C18_AcceptAdvancesByOne ==
    [][/\ (AtCandidate /\ arabicIndicToNumber(parts[i]) = expectedVerseNum) =>
             /\ currentText' = <<>>
             /\ expectedVerseNum' = expectedVerseNum + 1
             /\ expectedVerseNum' = 1 + AcceptedAmong(parts, i)
             /\ Len(verses') \in {Len(verses), Len(verses) + 1}
       /\ (pc = "loop" /\ i > Len(parts)) =>
             /\ expectedVerseNum = 1 + AcceptedAmong(parts, Len(parts))
             /\ expectedVerseNum' = expectedVerseNum
             /\ IF Trim(currentText) # <<>>
                THEN verses' = Append(verses, [number |-> expectedVerseNum,
                                               text |-> Trim(currentText)])
                ELSE verses' = verses
      ]_vars

\* a finished run that accepted one marker over an empty buffer, emitted no
\* unit for it, and emitted the remainder as the last unit, numbered 2
C18_Witness ==
    /\ Done
    /\ round = 1
    /\ expectedVerseNum = 2
    /\ Len(verses) = 1
    /\ verses[1].number = 2

(* C19: under MID_STREAM a run of digits is a candidate only with white    *)
(* space to its left; a run at the very start of the content is never      *)
(* accepted and never advances the expected number.                        *)
(* The API routine breaks it: the text before the first match is tested    *)
(* with /^[digits]+$/ like a capture, so a content that starts with the    *)
(* numeral of 1 followed by a match (or that is that numeral) has its      *)
(* leading run accepted.                                                   *)
C19_LeadingRunNeverAccepted ==
    (/\ routine = "MID_STREAM"
     /\ pc = "loop"
     /\ i = 2
     /\ content # <<>>
     /\ IsNumeralChar(content[1])) => expectedVerseNum = 1

\* the maximal runs of numeral characters followed by white space or by the
\* end of the string, from index p on, in order
RECURSIVE RunsBeforeSpaceOrEnd(_, _)
RunsBeforeSpaceOrEnd(s, p) ==
    IF p > Len(s) THEN <<>>
    ELSE IF ~IsNumeralChar(s[p]) THEN RunsBeforeSpaceOrEnd(s, p + 1)
    ELSE LET r == RunEnd(s, p)
         IN  (IF r = Len(s) \/ IsSpace(s[r + 1])
              THEN <<SubSeq(s, p, r)>> ELSE <<>>)
             \o RunsBeforeSpaceOrEnd(s, r + 1)

\* the parts that test as verse numbers, in order
RECURSIVE CandidateParts(_)
CandidateParts(ps) ==
    IF ps = <<>> THEN <<>>
    ELSE (IF isVerseNum(Head(ps)) THEN <<Head(ps)>> ELSE <<>>)
         \o CandidateParts(Tail(ps))

\* the parts that do not test as verse numbers, joined
RECURSIVE TextOfParts(_)
TextOfParts(ps) ==
    IF ps = <<>> THEN <<>>
    ELSE (IF isVerseNum(Head(ps)) THEN <<>> ELSE Head(ps))
         \o TextOfParts(Tail(ps))

\* the numeral characters of a string, in order
NumeralCharsOf(s) == SelectSeq(s, IsNumeralChar)

(* C20: under END_OF_UNIT the candidates are exactly the maximal runs of   *)
(* digits of either alphabet, mixed or not, that are followed by white     *)
(* space or by the end, whatever stands to their left; a run followed by   *)
(* another character is no candidate and stays in the text.                *)
C20_EndOfUnitCandidates ==
    (routine = "END_OF_UNIT" /\ pc \in {"loop", "done"}) =>
        /\ CandidateParts(parts) = RunsBeforeSpaceOrEnd(content, 1)
        /\ NumeralCharsOf(TextOfParts(parts)) \o Concat(CandidateParts(parts))
             = NumeralCharsOf(TextOfParts(parts) \o Concat(CandidateParts(parts)))
        /\ Len(NumeralCharsOf(TextOfParts(parts)))
             + Len(Concat(CandidateParts(parts))) = Len(NumeralCharsOf(content))

\* the batch routine finished on a mixed-alphabet run glued to a letter,
\* which is a candidate, after a run followed by a letter, which is not
C20_Witness ==
    /\ Done
    /\ round = 1
    /\ routine = "END_OF_UNIT"
    /\ content = <<ArabicIndicZero + 1, 97, ArabicIndicZero + 1, ExtendedZero + 1>>
    /\ CandidateParts(parts) = <<<<ArabicIndicZero + 1, ExtendedZero + 1>>>>

-----------------------------------------------------------------------------
(* The three routines at their return. *)

\* a routine has returned its list
Returned == pc \in {"done", "returned"}

\* no marker was accepted as sequential
NoMarkerAccepted ==
    IF routine = "parseVerses" THEN positions = <<>> ELSE expectedVerseNum = 1

(* C11, as the claim states it: when the content holds no marker that is    *)
(* accepted as sequential, the routine returns an empty unit list.          *)
C11_NoMarkersEmpty ==
    (Returned /\ NoMarkerAccepted) => verses = <<>>

(* C11, amended: when no marker is accepted as sequential, parseVerses      *)
(* returns an empty list; each parseVersesFromContent returns an empty list *)
(* only for content of white space alone, and otherwise exactly one unit,   *)
(* numbered 1 and holding every character of the content that is not white *)
(* space, in order.                                                         *)
C11_NoMarkersOneUnit ==
    (Returned /\ NoMarkerAccepted) =>
        IF routine = "parseVerses" \/ AllSpace(content)
        THEN verses = <<>>
        ELSE /\ Len(verses) = 1
             /\ verses[1].number = 1
             /\ Concat(Words(verses[1].text)) = Concat(Words(content))

C11_Witness ==
    /\ Returned
    /\ routine = "END_OF_UNIT"
    /\ content = <<97, 32, ArabicIndicZero + 2, 32>>
    /\ verses = <<[number |-> 1, text |-> <<97, 32, ArabicIndicZero + 2>>]>>

\* a list of units: records of a positive number and a string
IsUnitList(vs) ==
    \A k \in 1 .. Len(vs) :
        /\ DOMAIN vs[k] = {"number", "text"}
        /\ vs[k].number \in Nat \ {0}
        /\ DOMAIN vs[k].text = 1 .. Len(vs[k].text)

(* C12: for every input string each of the three segmentation routines      *)
(* terminates and returns a list of units, possibly empty, wherever the     *)
(* digit runs of the input stand and whatever their values; no step of a    *)
(* routine is undefined on any input.                                       *)
C12_TerminatesWithUnits == <>(Returned /\ IsUnitList(verses))

C12_Witness ==
    /\ pc = "returned"
    /\ num = 10
    /\ Len(positions) = 1
    /\ Len(verses) = 2

-----------------------------------------------------------------------------
(* The callers. *)

\* the caller has set bismillah and the content of its segmenter
ContentPassed == pc \in {"split", "loop", "done", "responded"}

(* C13: in fetchSurah and in GET alike, for the collection without preamble *)
(* and for the collection whose preamble is its unit 1, bismillah is empty  *)
(* and the segmenter receives all fragments from index 2 on.                *)
C13_SpecialAtCaller ==
    (ContentPassed /\ IsSpecial(surahName)) =>
        /\ bismillah = <<>>
        /\ content = SliceJoinTrim(response.TextofSura, 2)

\* the character p, which the payloads hold in their third fragment only
HasPreambleChar(str) == \E k \in 1 .. Len(str) : str[k] = 112

(* C14: whenever a caller has set a non-empty bismillah, it is the trimmed  *)
(* third fragment, the content passed to the segmenter is made of the       *)
(* fragments after it alone, and no part, no buffer and no unit text holds  *)
(* a character of the preamble; in fetchSurah and in GET.                   *)
C14_PreambleNotSegmented ==
    (ContentPassed /\ bismillah # <<>>) =>
        /\ bismillah = Trim(response.TextofSura[3])
        /\ content = SliceJoinTrim(response.TextofSura, 3)
        /\ ~HasPreambleChar(content)
        /\ ~HasPreambleChar(currentText)
        /\ \A k \in 1 .. Len(parts) : ~HasPreambleChar(parts[k])
        /\ \A k \in 1 .. Len(verses) : ~HasPreambleChar(verses[k].text)

C14_Witness ==
    /\ pc = "responded"
    /\ result.bismillah = <<112, 32, ArabicIndicZero + 1>>
    /\ Len(result.verses) = 2
    /\ result.verses[1].number = 1

-----------------------------------------------------------------------------
(* The batch mains. *)

\* the same surahs and units, whatever their numerics
SameUnits(a, b) ==
    /\ Len(a) = Len(b)
    /\ \A s \in 1 .. Len(a) :
          /\ a[s].surahNumber = b[s].surahNumber
          /\ a[s].bismillah = b[s].bismillah
          /\ Len(a[s].verses) = Len(b[s].verses)
          /\ \A v \in 1 .. Len(a[s].verses) :
                /\ a[s].verses[v].number = b[s].verses[v].number
                /\ a[s].verses[v].text = b[s].verses[v].text

(* C15: every step of scrape-numerical's main leaves each verse's number    *)
(* and text, each bismillah and the order and count of verses and surahs    *)
(* as they were, and leaves the surahs that are no target entirely as they  *)
(* were; a rejected request leaves quranData as it was and the loop goes on *)
(* with the next unit.                                                      *)
C15_EnrichmentFrame ==
    [][/\ SameUnits(quranData, quranData')
       /\ \A s \in 1 .. Len(quranData) :
             quranData[s].surahNumber \notin TARGET_SURAHS =>
                 quranData'[s] = quranData[s]
       /\ (pc = "await" /\ errorCount' # errorCount) =>
             /\ quranData' = quranData
             /\ cursor' = [cursor EXCEPT !.unit = @ + 1]
             /\ pc' = "enrich"
      ]_vars

C15_Witness ==
    /\ pc = "written"
    /\ Len(quranData) = 3
    /\ Len(quranData[1].verses) = 2
    /\ quranData[1].verses[1].numerics = "new"
    /\ quranData[1].verses[2].numerics = "old"
    /\ quranData[2].bismillahNumerics = "old"
    /\ quranData[3].bismillahNumerics = "new"
    /\ errorCount >= 1

\* a request is under way
InFlight == pc \in {"fetch", "await"}

(* C16: the two mains issue their requests one at a time, and when a main   *)
(* issues a request after an earlier one, the fixed delay has elapsed since *)
(* the earlier one: 300 ms in the surah scraper, 800 ms in scrape-numerical, *)
(* whether the earlier request succeeded or failed.                         *)
C16_DelayBetweenRequests ==
    [][/\ (MainAttempt /\ requested) => (~InFlight /\ slept >= ScraperDelay)
       /\ (EnrichRequest /\ requested) => (~InFlight /\ slept >= DELAY_MS)
      ]_vars

-----------------------------------------------------------------------------
(* The two loops on the same parts. *)

(* C21: the loops of the MID_STREAM routine and of the END_OF_UNIT routine  *)
(* are the same state machine: fed the same sequence of split parts, they   *)
(* return the same list of units.                                           *)
C21_SameUnitsOnSameParts ==
    (Done /\ round = 2) => verses = first

-----------------------------------------------------------------------------
(* White space inside the unit texts. *)

\* every white space character of the string is one space between two words
IsNormalized(str) ==
    \A k \in 1 .. Len(str) :
        IsSpace(str[k]) =>
            /\ str[k] = 32
            /\ k > 1
            /\ k < Len(str)
            /\ ~IsSpace(str[k + 1])

(* C22: every emitted unit text has normalized internal white space: no run *)
(* of two or more white space characters and no white space character      *)
(* other than a single space between words, under both conventions.         *)
C22_NormalizedWhiteSpace ==
    \A k \in 1 .. Len(verses) : IsNormalized(verses[k].text)

-----------------------------------------------------------------------------
(* The fragments that a caller joins. *)

\* the index (1-based) of the first fragment that the caller passed on
PassedFrom ==
    IF routine = "END_OF_UNIT" /\ IsSpecial(name) THEN 3 ELSE 4

\* the first index of the run of numeral characters that ends the string
RECURSIVE RunStart(_, _)
RunStart(str, p) ==
    IF p > 1 /\ IsNumeralChar(str[p - 1]) THEN RunStart(str, p - 1) ELSE p

\* the marker that ends a fragment
EndingMarker(str) == SubSeq(str, RunStart(str, Len(str)), Len(str))

\* the fragment at k ends with a marker after white space, and the next one
\* begins with text
MarkerMeetsText(t, k) ==
    /\ k < Len(t)
    /\ t[k] # <<>>
    /\ IsNumeralChar(t[k][Len(t[k])])
    /\ RunStart(t[k], Len(t[k])) > 1
    /\ IsSpace(t[k][RunStart(t[k], Len(t[k])) - 1])
    /\ t[k + 1] # <<>>
    /\ ~IsSpace(t[k + 1][1])
    /\ ~IsNumeralChar(t[k + 1][1])

(* C23: the callers join the fragments with white space between them, so a *)
(* marker that ends one fragment is a candidate of the segmenter also when  *)
(* the next fragment begins with text: a part of the split is that marker,  *)
(* and no part holds it glued to the text that follows.                     *)
C23_MarkerAtFragmentEnd ==
    (pc \in {"loop", "done"} /\ response.kind = "ok") =>
        \A k \in PassedFrom .. Len(response.TextofSura) :
            MarkerMeetsText(response.TextofSura, k) =>
                \E j \in 1 .. Len(parts) :
                    parts[j] = EndingMarker(response.TextofSura[k])

-----------------------------------------------------------------------------
(* The numbers of a unit list. *)

(* C24: in every unit list of either parseVersesFromContent, while it is    *)
(* built and when it is returned, the numbers are strictly increasing in    *)
(* list order, and each is at least 1 and at most 1 plus the number of      *)
(* markers accepted so far.                                                 *)
C24_NumbersIncrease ==
    (pc \in {"loop", "done"}) =>
        /\ \A k \in 1 .. Len(verses) :
              /\ verses[k].number >= 1
              /\ verses[k].number <= 1 + AcceptedAmong(parts, i - 1)
              /\ k < Len(verses) => verses[k].number < verses[k + 1].number
        /\ expectedVerseNum = 1 + AcceptedAmong(parts, i - 1)

C24_Witness ==
    /\ Done
    /\ round = 1
    /\ Len(verses) = 3
    /\ verses[3].number = 3
    /\ AcceptedAmong(parts, Len(parts)) = 2

-----------------------------------------------------------------------------
(* The surah scraper's main. *)

\* how many entries of a list carry the surahNumber n
CountOf(list, n) == Cardinality({k \in 1 .. Len(list) : list[k].surahNumber = n})

\* main is between two rounds of its loop, or after it
BetweenRounds == pc \in {"main", "saved"}

(* C25: main of the surah scraper attempts the names of allSurahs once each *)
(* and in list order; a failed fetch does not stop the later ones; each     *)
(* attempted name ends in exactly one of results and errors, with its       *)
(* 1-based position as surahNumber; after k names the two lists hold k      *)
(* entries together and results is in strictly increasing surahNumber       *)
(* order.                                                                   *)
C25_EveryNameOnce ==
    (routine = "END_OF_UNIT") =>
        /\ surahIndex \in 1 .. Len(allSurahs) + 1
        /\ Len(results) + Len(errors) = surahIndex - 1
        /\ \A n \in 1 .. Len(allSurahs) :
              CountOf(results, n) + CountOf(errors, n) =
                  IF n < surahIndex THEN 1 ELSE 0
        /\ \A k \in 1 .. Len(results) - 1 :
              results[k].surahNumber < results[k + 1].surahNumber
        /\ \A k \in 1 .. Len(errors) :
              errors[k].name = allSurahs[errors[k].surahNumber]
        /\ ~BetweenRounds => name = allSurahs[surahIndex]
        /\ pc = "saved" => surahIndex = Len(allSurahs) + 1

C25_Witness ==
    /\ pc = "saved"
    /\ Len(results) = 2
    /\ Len(errors) = 1
    /\ errors[1].surahNumber = 1

-----------------------------------------------------------------------------
(* The scraper page. *)

(* C26: after any interleaving of calls of scrape and of their responses,   *)
(* data and error are never both non-null, and loading is true whenever a   *)
(* request is still in flight.                                              *)
C26_PageConsistent ==
    (routine = "page") =>
        /\ ~(data # "null" /\ error # "null")
        /\ pending # {} => loading

=============================================================================
